---------------------------- MODULE Spec2Model ----------------------------
(***************************************************************************)
(* Normalization and MITRE enrichment pipeline of app.py.                  *)
(*                                                                         *)
(* Python strings are sequences of one-character strings, so that lower(), *)
(* strip() and the substring test `k in text` are computed character by    *)
(* character.  A Python value is a record [t, s, n, d]: t is the type tag, *)
(* s the characters of a str, n the number of an int or bool, d the fields *)
(* of a datetime.  A raised exception is a value whose tag is the name of  *)
(* the exception.  A dict is a function from its keys to values.           *)
(***************************************************************************)
EXTENDS Integers, Sequences, FiniteSets

VARIABLES raw_alerts, mitre_map, normalized_rows, frame, idx, pc, error,
          today, runs, prev_rows, prev_pc

vars == <<raw_alerts, mitre_map, normalized_rows, frame, idx, pc, error,
          today, runs, prev_rows, prev_pc>>

-----------------------------------------------------------------------------
(* Python values *)

V_str(chars) == [t |-> "str", s |-> chars, n |-> 0, d |-> <<>>]

V_int(k) == [t |-> "int", s |-> <<>>, n |-> k, d |-> <<>>]

V_bool(b) == [t |-> "bool", s |-> <<>>, n |-> IF b THEN 1 ELSE 0, d |-> <<>>]

V_datetime(fields) == [t |-> "datetime", s |-> <<>>, n |-> 0, d |-> fields]

None == [t |-> "none", s |-> <<>>, n |-> 0, d |-> <<>>]

Raise(exc) == [t |-> exc, s |-> <<>>, n |-> 0, d |-> <<>>]

Exceptions == {"AttributeError", "TypeError", "ValueError"}

IsRaise(v) == v.t \in Exceptions

IsStr(v) == v.t = "str"

\* bool(v): None, "", 0 and False are falsy
Truthy(v) ==
    CASE v.t = "none" -> FALSE
      [] v.t = "str" -> v.s # <<>>
      [] v.t = "int" -> v.n # 0
      [] v.t = "bool" -> v.n # 0
      [] OTHER -> TRUE

\* a or b
Or(a, b) == IF Truthy(a) THEN a ELSE b

\* d.get(k): None when the key is absent
dict_get(dict, k) == IF k \in DOMAIN dict THEN dict[k] ELSE None

\* d.get(k, default)
dict_get_default(dict, k, default) ==
    IF k \in DOMAIN dict THEN dict[k] ELSE default

-----------------------------------------------------------------------------
(* str methods *)

UpperChars ==
    <<"A", "B", "C", "D", "E", "F", "G", "H", "I", "J", "K", "L", "M",
      "N", "O", "P", "Q", "R", "S", "T", "U", "V", "W", "X", "Y", "Z">>

LowerChars ==
    <<"a", "b", "c", "d", "e", "f", "g", "h", "i", "j", "k", "l", "m",
      "n", "o", "p", "q", "r", "s", "t", "u", "v", "w", "x", "y", "z">>

Whitespace == {" ", "\t", "\n", "\r", "\f"}

DigitChars == <<"0", "1", "2", "3", "4", "5", "6", "7", "8", "9">>

LowerChar(c) ==
    IF \E k \in DOMAIN UpperChars : UpperChars[k] = c
    THEN LowerChars[CHOOSE k \in DOMAIN UpperChars : UpperChars[k] = c]
    ELSE c

\* s.lower()
str_lower(chars) == [k \in 1..Len(chars) |-> LowerChar(chars[k])]

SetMin(S) == CHOOSE x \in S : \A y \in S : x <= y

SetMax(S) == CHOOSE x \in S : \A y \in S : y <= x

\* s.strip(): drops the leading and the trailing whitespace
str_strip(chars) ==
    LET keep == {k \in 1..Len(chars) : chars[k] \notin Whitespace}
    IN  IF keep = {} THEN <<>> ELSE SubSeq(chars, SetMin(keep), SetMax(keep))

\* k in text: k occurs in text as a contiguous run of characters
str_contains(k, text) ==
    \E p \in 0..(Len(text) - Len(k)) : SubSeq(text, p + 1, p + Len(k)) = k

IsDigit(c) == \E k \in DOMAIN DigitChars : DigitChars[k] = c

DigitVal(c) == (CHOOSE k \in DOMAIN DigitChars : DigitChars[k] = c) - 1

RECURSIVE Num(_)
Num(chars) ==
    IF chars = <<>> THEN 0
    ELSE 10 * Num(SubSeq(chars, 1, Len(chars) - 1)) + DigitVal(chars[Len(chars)])

AllDigits(chars) == \A k \in 1..Len(chars) : IsDigit(chars[k])

-----------------------------------------------------------------------------
(* String literals of the source *)

s_critical ==
    <<"c", "r", "i", "t", "i", "c", "a", "l">>

s_high ==
    <<"h", "i", "g", "h">>

s_medium ==
    <<"m", "e", "d", "i", "u", "m">>

s_low ==
    <<"l", "o", "w">>

s_sql_injection ==
    <<"s", "q", "l", " ", "i", "n", "j", "e", "c", "t", "i", "o", "n">>

s_malware ==
    <<"m", "a", "l", "w", "a", "r", "e">>

s_brute_force ==
    <<"b", "r", "u", "t", "e", " ", "f", "o", "r", "c", "e">>

s_failed_login ==
    <<"f", "a", "i", "l", "e", "d", " ", "l", "o", "g", "i", "n">>

s_port_scan ==
    <<"p", "o", "r", "t", " ", "s", "c", "a", "n">>

s_Unknown ==
    <<"U", "n", "k", "n", "o", "w", "n">>

Unknown == V_str(s_Unknown)

High == V_str(<<"H", "i", "g", "h">>)

Medium == V_str(<<"M", "e", "d", "i", "u", "m">>)

Low == V_str(<<"L", "o", "w">>)

-----------------------------------------------------------------------------
(* dateutil.parser.parse, on the two shapes of text the alerts carry:      *)
(* YYYY-MM-DD, a full date, and HH:MM, a time of day, whose missing date   *)
(* fields are taken from the default, datetime.now() at midnight.  Any     *)
(* other text is refused with ParserError, a ValueError; anything that is  *)
(* not text with TypeError.                                                *)

\* the calendar day the clock shows after `clock` days
datetime_now(clock) == <<2024, 1, 15 + clock>>

IsLeap(y) == (y % 4 = 0 /\ y % 100 # 0) \/ y % 400 = 0

DaysInMonth(y, m) ==
    IF m = 2 THEN (IF IsLeap(y) THEN 29 ELSE 28)
    ELSE IF m \in {4, 6, 9, 11} THEN 30 ELSE 31

IsDateText(chars) ==
    /\ Len(chars) = 10
    /\ chars[5] = "-" /\ chars[8] = "-"
    /\ AllDigits(SubSeq(chars, 1, 4))
    /\ AllDigits(SubSeq(chars, 6, 7))
    /\ AllDigits(SubSeq(chars, 9, 10))

IsTimeText(chars) ==
    /\ Len(chars) = 5
    /\ chars[3] = ":"
    /\ AllDigits(SubSeq(chars, 1, 2))
    /\ AllDigits(SubSeq(chars, 4, 5))

parser_parse(ts, clock) ==
    IF ~IsStr(ts) THEN Raise("TypeError")
    ELSE IF IsDateText(ts.s) THEN
        LET y == Num(SubSeq(ts.s, 1, 4))
            m == Num(SubSeq(ts.s, 6, 7))
            dd == Num(SubSeq(ts.s, 9, 10))
        IN  IF y >= 1 /\ m \in 1..12 /\ dd >= 1 /\ dd <= DaysInMonth(y, m)
            THEN V_datetime(<<y, m, dd, 0, 0>>)
            ELSE Raise("ValueError")
    ELSE IF IsTimeText(ts.s) THEN
        LET h == Num(SubSeq(ts.s, 1, 2))
            mi == Num(SubSeq(ts.s, 4, 5))
            now == datetime_now(clock)
        IN  IF h <= 23 /\ mi <= 59
            THEN V_datetime(<<now[1], now[2], now[3], h, mi>>)
            ELSE Raise("ValueError")
    ELSE Raise("ValueError")

-----------------------------------------------------------------------------
(* Helper functions *)

\* a resolver that goes on to the next alias when a value does not parse
parse_time_try_next(alert, clock) ==
    LET Try(v) == IF Truthy(v) /\ ~IsRaise(parser_parse(v, clock))
                  THEN parser_parse(v, clock) ELSE None
    IN  Or(Or(Try(dict_get(alert, "timestamp")), Try(dict_get(alert, "time"))),
           Try(dict_get(alert, "event_time")))

parse_time(alert, clock) ==
    LET ts == Or(Or(dict_get(alert, "timestamp"), dict_get(alert, "time")),
                 dict_get(alert, "event_time"))
    IN  IF ~Truthy(ts) THEN None
        ELSE LET parsed == parser_parse(ts, clock)
             IN  IF IsRaise(parsed) THEN None ELSE parsed

\* a resolver that takes the first alias that is not None, empty or not
pick_source_first_present(alert) ==
    LET Present(v) == v # None
    IN  IF Present(dict_get(alert, "source")) THEN dict_get(alert, "source")
        ELSE IF Present(dict_get(alert, "vendor"))
        THEN dict_get(alert, "vendor")
        ELSE IF Present(dict_get(alert, "product"))
        THEN dict_get(alert, "product")
        ELSE Unknown

pick_source(alert) ==
    Or(Or(Or(dict_get(alert, "source"), dict_get(alert, "vendor")),
          dict_get(alert, "product")), Unknown)

pick_alert_type(alert) ==
    Or(Or(Or(dict_get(alert, "type"), dict_get(alert, "alert_type")),
          dict_get(alert, "signature")), Unknown)

HighKeywords == <<s_sql_injection, s_malware>>

MediumKeywords == <<s_brute_force, s_failed_login, s_port_scan>>

\* any(k in text for k in keywords)
any_in(keywords, text) ==
    \E k \in DOMAIN keywords : str_contains(keywords[k], text)

\* a classifier that lets the keywords of the type text overrule the severity
severity_bucket_keywords_first(alert, alert_type_text) ==
    LET sev_raw == Or(dict_get(alert, "severity"), V_str(<<>>))
        text_raw == Or(alert_type_text, V_str(<<>>))
    IN  IF ~IsStr(sev_raw) THEN Raise("AttributeError")
        ELSE IF ~IsStr(text_raw) THEN Raise("AttributeError")
        ELSE LET sev == str_strip(str_lower(sev_raw.s))
                 text == str_lower(text_raw.s)
             IN  IF any_in(HighKeywords, text) THEN High
                 ELSE IF any_in(MediumKeywords, text) THEN Medium
                 ELSE IF sev \in {s_critical, s_high} THEN High
                 ELSE IF sev = s_medium THEN Medium
                 ELSE Low

\* a classifier that tries the Medium keywords before the High keywords
severity_bucket_medium_first(alert, alert_type_text) ==
    LET sev_raw == Or(dict_get(alert, "severity"), V_str(<<>>))
        text_raw == Or(alert_type_text, V_str(<<>>))
    IN  IF ~IsStr(sev_raw) THEN Raise("AttributeError")
        ELSE IF ~IsStr(text_raw) THEN Raise("AttributeError")
        ELSE LET sev == str_strip(str_lower(sev_raw.s))
                 text == str_lower(text_raw.s)
             IN  IF sev \in {s_critical, s_high} THEN High
                 ELSE IF sev = s_medium THEN Medium
                 ELSE IF sev = s_low THEN Low
                 ELSE IF any_in(MediumKeywords, text) THEN Medium
                 ELSE IF any_in(HighKeywords, text) THEN High
                 ELSE Low

\* a classifier that hands an unrecognized severity on as a bucket of its own
severity_bucket_fourth(alert, alert_type_text) ==
    LET sev_raw == Or(dict_get(alert, "severity"), V_str(<<>>))
        text_raw == Or(alert_type_text, V_str(<<>>))
    IN  IF ~IsStr(sev_raw) THEN Raise("AttributeError")
        ELSE IF ~IsStr(text_raw) THEN Raise("AttributeError")
        ELSE LET sev == str_strip(str_lower(sev_raw.s))
                 text == str_lower(text_raw.s)
             IN  IF sev \in {s_critical, s_high} THEN High
                 ELSE IF sev = s_medium THEN Medium
                 ELSE IF sev = s_low THEN Low
                 ELSE IF sev # <<>> THEN V_str(sev)
                 ELSE IF any_in(HighKeywords, text) THEN High
                 ELSE IF any_in(MediumKeywords, text) THEN Medium
                 ELSE Low

severity_bucket(alert, alert_type_text) ==
    LET sev_raw == Or(dict_get(alert, "severity"), V_str(<<>>))
        text_raw == Or(alert_type_text, V_str(<<>>))
    IN  IF ~IsStr(sev_raw) THEN Raise("AttributeError")
        ELSE IF ~IsStr(text_raw) THEN Raise("AttributeError")
        ELSE LET sev == str_strip(str_lower(sev_raw.s))
                 text == str_lower(text_raw.s)
             IN  IF sev \in {s_critical, s_high} THEN High
                 ELSE IF sev = s_medium THEN Medium
                 ELSE IF sev = s_low THEN Low
                 ELSE IF any_in(HighKeywords, text) THEN High
                 ELSE IF any_in(MediumKeywords, text) THEN Medium
                 ELSE Low

\* for keyword, mapping in mitre_map.items(): the position of the first entry,
\* from position k on, whose keyword is in text; 0 when the loop falls through
RECURSIVE first_match(_, _, _)
first_match(table, text, k) ==
    IF k > Len(table) THEN 0
    ELSE IF str_contains(table[k].keyword, text) THEN k
    ELSE first_match(table, text, k + 1)

\* an enrichment in which the last matching entry of the table wins
mitre_enrich_last_match(alert_type_text, table) ==
    LET text_raw == Or(alert_type_text, V_str(<<>>))
    IN  IF ~IsStr(text_raw)
        THEN <<Raise("AttributeError"), Raise("AttributeError")>>
        ELSE LET text == str_lower(text_raw.s)
                 hits == {k \in DOMAIN table :
                             str_contains(table[k].keyword, text)}
             IN  IF hits = {} THEN <<Unknown, Unknown>>
                 ELSE <<dict_get_default(table[SetMax(hits)].mapping,
                                         "tactic", Unknown),
                        dict_get_default(table[SetMax(hits)].mapping,
                                         "technique", Unknown)>>

\* the pair (tactic, technique); both components carry the exception when
\* one is raised
mitre_enrich(alert_type_text, table) ==
    LET text_raw == Or(alert_type_text, V_str(<<>>))
    IN  IF ~IsStr(text_raw)
        THEN <<Raise("AttributeError"), Raise("AttributeError")>>
        ELSE LET text == str_lower(text_raw.s)
                 hit == first_match(table, text, 1)
             IN  IF hit = 0 THEN <<Unknown, Unknown>>
                 ELSE <<dict_get_default(table[hit].mapping, "tactic", Unknown),
                        dict_get_default(table[hit].mapping, "technique", Unknown)>>

-----------------------------------------------------------------------------
(* Bounds of the model *)

\* alerts in a loaded collection
MaxAlerts == 2

\* runs of the script over one loaded collection
MaxRuns == 2

\* days the wall clock advances
MaxTick == 1

\* fragments concatenated into an alert type text
MaxFrags == 2

\* blanks put before and after a severity word
MaxPad == 1

\* entries of a mapping table
MaxKeys == 2

-----------------------------------------------------------------------------
(* Normalize + enrich: the script's module-level loop *)

\* the name of a module-level variable that has not been assigned yet
Unbound == [t |-> "unbound", s |-> <<>>, n |-> 0, d |-> <<>>]

\* the loop's variables before the first iteration
NoFrame ==
    [a |-> <<>>, bound |-> FALSE, atype |-> Unbound, ts |-> Unbound,
     src |-> Unbound, bucket |-> Unbound, tactic |-> Unbound,
     technique |-> Unbound]

\* the dict literal appended to normalized_rows
normalized_record(ts, src, atype, bucket, tactic, technique) ==
    [timestamp |-> ts, source |-> src, alert_type |-> atype,
     severity_bucket |-> bucket, mitre_tactic |-> tactic,
     mitre_technique |-> technique]

\* a loop that puts the new row first
list_insert_front(rows, row) == <<row>> \o rows

\* normalized_rows.append(row)
list_append(rows, row) == Append(rows, row)

\* for a in raw_alerts: one iteration.  An exception raised by a helper
\* leaves the loop and ends the script; the names assigned before it keep
\* their values.
Normalize ==
    /\ pc = "loop"
    /\ idx <= Len(raw_alerts)
    /\ LET a == raw_alerts[idx]
           atype == pick_alert_type(a)
           ts == parse_time(a, today)
           src == pick_source(a)
           bucket == severity_bucket(a, atype)
           mitre == mitre_enrich(atype, mitre_map)
           assigned == [frame EXCEPT !.a = a, !.bound = TRUE, !.atype = atype,
                                     !.ts = ts, !.src = src]
       IN  IF IsRaise(bucket) THEN
               /\ frame' = assigned
               /\ pc' = "raised"
               /\ error' = bucket.t
               /\ UNCHANGED <<normalized_rows, idx>>
           ELSE IF IsRaise(mitre[1]) THEN
               /\ frame' = [assigned EXCEPT !.bucket = bucket]
               /\ pc' = "raised"
               /\ error' = mitre[1].t
               /\ UNCHANGED <<normalized_rows, idx>>
           ELSE
               /\ frame' = [assigned EXCEPT !.bucket = bucket,
                                            !.tactic = mitre[1],
                                            !.technique = mitre[2]]
               /\ normalized_rows' =
                      list_append(normalized_rows,
                                  normalized_record(ts, src, atype, bucket,
                                                    mitre[1], mitre[2]))
               /\ idx' = idx + 1
               /\ UNCHANGED <<pc, error>>
    /\ UNCHANGED <<raw_alerts, mitre_map, today, runs, prev_rows, prev_pc>>

\* the loop is exhausted: df = pd.DataFrame(normalized_rows)
EndLoop ==
    /\ pc = "loop"
    /\ idx > Len(raw_alerts)
    /\ pc' = "done"
    /\ UNCHANGED <<raw_alerts, mitre_map, normalized_rows, idx, error, today,
                   runs, prev_rows, prev_pc, frame>>

\* The script runs again from the top (Streamlit reruns it on every
\* interaction) over the same loaded alerts and mapping.  prev_rows and
\* prev_pc record how the previous run ended.
Rerun ==
    /\ pc \in {"done", "raised"}
    /\ runs < MaxRuns
    /\ runs' = runs + 1
    /\ prev_rows' = normalized_rows
    /\ prev_pc' = pc
    /\ normalized_rows' = <<>>
    /\ frame' = NoFrame
    /\ idx' = 1
    /\ pc' = "loop"
    /\ error' = "none"
    /\ UNCHANGED <<raw_alerts, mitre_map, today>>

\* a day passes on the wall clock that datetime.now() reads
Tick ==
    /\ today < MaxTick
    /\ today' = today + 1
    /\ UNCHANGED <<raw_alerts, mitre_map, normalized_rows, idx, pc, error,
                   runs, prev_rows, prev_pc, frame>>

\* the state in which the loop starts over the loaded alerts and mapping
Start(alerts, table, clock) ==
    /\ raw_alerts = alerts
    /\ mitre_map = table
    /\ today = clock
    /\ normalized_rows = <<>>
    /\ frame = NoFrame
    /\ idx = 1
    /\ pc = "loop"
    /\ error = "none"
    /\ runs = 1
    /\ prev_rows = <<>>
    /\ prev_pc = "none"

-----------------------------------------------------------------------------
(* Text of the alerts and of the mapping tables the model loads *)

f_SQL_Injection ==
    <<"S", "Q", "L", " ", "I", "n", "j", "e", "c", "t", "i", "o", "n">>

f_sql_ ==
    <<"s", "q", "l", " ">>

f_injection ==
    <<"i", "n", "j", "e", "c", "t", "i", "o", "n">>

f_Malware ==
    <<"M", "a", "l", "w", "a", "r", "e">>

f_brute_force ==
    <<"b", "r", "u", "t", "e", " ", "f", "o", "r", "c", "e">>

f_Failed_Login ==
    <<"F", "a", "i", "l", "e", "d", " ", "L", "o", "g", "i", "n">>

f_port_scan ==
    <<"p", "o", "r", "t", " ", "s", "c", "a", "n">>

f_x ==
    <<"x">>

w_high ==
    <<"h", "i", "g", "h">>

w_High ==
    <<"H", "i", "g", "h">>

w_CRITICAL ==
    <<"C", "R", "I", "T", "I", "C", "A", "L">>

w_medium ==
    <<"m", "e", "d", "i", "u", "m">>

w_Low ==
    <<"L", "o", "w">>

w_informational ==
    <<"i", "n", "f", "o", "r", "m", "a", "t", "i", "o", "n", "a", "l">>

w_hi_gh ==
    <<"h", "i", " ", "g", "h">>

w_tab_High_nl ==
    <<"\t", "H", "i", "g", "h", "\n">>

k_brute_force ==
    <<"b", "r", "u", "t", "e", " ", "f", "o", "r", "c", "e">>

k_login ==
    <<"l", "o", "g", "i", "n">>

k_scan ==
    <<"s", "c", "a", "n">>

k_Malware ==
    <<"M", "a", "l", "w", "a", "r", "e">>

k_malware ==
    <<"m", "a", "l", "w", "a", "r", "e">>

t_Credential_Access ==
    <<"C", "r", "e", "d", "e", "n", "t", "i", "a", "l", " ", "A", "c", "c", "e", "s", "s">>

t_T1110 ==
    <<"T", "1", "1", "1", "0">>

t_X ==
    <<"X">>

t_Y ==
    <<"Y">>

t_Discovery ==
    <<"D", "i", "s", "c", "o", "v", "e", "r", "y">>

t_T1046 ==
    <<"T", "1", "0", "4", "6">>

t_Execution ==
    <<"E", "x", "e", "c", "u", "t", "i", "o", "n">>

t_T1204 ==
    <<"T", "1", "2", "0", "4">>

m_Brute_Force ==
    <<"B", "r", "u", "t", "e", " ", "F", "o", "r", "c", "e">>

m__login ==
    <<" ", "l", "o", "g", "i", "n">>

m_Port_Scan ==
    <<"P", "o", "r", "t", " ", "S", "c", "a", "n">>

m_MALWARE ==
    <<"M", "A", "L", "W", "A", "R", "E">>

m_xyz ==
    <<"x", "y", "z">>

ts_date ==
    <<"2", "0", "2", "4", "-", "0", "1", "-", "1", "5">>

ts_date2 ==
    <<"2", "0", "2", "3", "-", "1", "2", "-", "3", "1">>

ts_baddate ==
    <<"2", "0", "2", "4", "-", "1", "3", "-", "4", "5">>

ts_time ==
    <<"1", "0", ":", "3", "0">>

ts_badtime ==
    <<"2", "5", ":", "3", "0">>

ts_text ==
    <<"g", "a", "r", "b", "a", "g", "e">>

n_Firewall ==
    <<"F", "i", "r", "e", "w", "a", "l", "l">>

n_EDR ==
    <<"E", "D", "R">>

n_WAF ==
    <<"W", "A", "F">>

-----------------------------------------------------------------------------
(* Inputs: alerts.json and mitre_mapping.json as load_json returns them *)

\* marks a key the dict does not hold
Absent == [t |-> "absent", s |-> <<>>, n |-> 0, d |-> <<>>]

\* the dict holding the keys of f whose value is not Absent
MakeDict(f) == [k \in {x \in DOMAIN f : f[x] # Absent} |-> f[k]]

SeqsUpTo(S, n) == UNION {[1..k -> S] : k \in 0..n}

RECURSIVE Flatten(_)
Flatten(seqs) ==
    IF seqs = <<>> THEN <<>> ELSE Head(seqs) \o Flatten(Tail(seqs))

Texts(frags, n) == {Flatten(fs) : fs \in SeqsUpTo(frags, n)}

Pads(n) == {[k \in 1..m |-> " "] : m \in 0..n}

InjectiveSeqs(S, n) ==
    {q \in SeqsUpTo(S, n) : \A x, y \in DOMAIN q : x # y => q[x] # q[y]}

TypeFrags ==
    {f_SQL_Injection, f_sql_, f_injection, f_Malware, f_brute_force,
     f_Failed_Login, f_port_scan, f_x}

SeverityWords ==
    {<<>>, w_high, w_High, w_CRITICAL, w_medium, w_Low, w_informational,
     w_hi_gh, w_tab_High_nl}

SeverityValues ==
    {Absent, None, V_int(0), V_int(3), V_bool(FALSE)}
    \cup {V_str(l \o w \o r) : l \in Pads(MaxPad), r \in Pads(MaxPad),
                               w \in SeverityWords}

TypeValues ==
    {V_int(5)} \cup {V_str(t) : t \in Texts(TypeFrags, MaxFrags)}

SeverityAlerts ==
    {MakeDict([severity |-> sv, type |-> tv]) :
        sv \in SeverityValues, tv \in TypeValues}

Entry(keyword, mapping) == [keyword |-> keyword, mapping |-> mapping]

MitreEntries ==
    {Entry(k_brute_force, [tactic |-> V_str(t_Credential_Access),
                           technique |-> V_str(t_T1110)]),
     Entry(k_login, [tactic |-> V_str(t_X), technique |-> V_str(t_Y)]),
     Entry(k_scan, [technique |-> V_str(t_T1046)]),
     Entry(k_malware, [tactic |-> None, technique |-> V_str(t_T1204)]),
     Entry(k_Malware, [tactic |-> V_str(t_Execution),
                       technique |-> V_str(t_T1204)]),
     Entry(<<>>, [tactic |-> V_str(t_Discovery)])}

\* a JSON object holds each key once
MitreTables == InjectiveSeqs(MitreEntries, MaxKeys)

MitreFrags == {m_Brute_Force, m__login, m_Port_Scan, m_MALWARE, m_xyz}

MitreAlerts ==
    {[type |-> V_int(5)]}
    \cup {MakeDict([type |-> V_str(t)]) : t \in Texts(MitreFrags, MaxFrags)}

NameValues ==
    {Absent, None, V_str(<<>>), V_str(n_Firewall), V_str(n_EDR), V_int(0),
     V_int(7)}

TimeValues ==
    {Absent, None, V_str(<<>>), V_str(ts_date), V_str(ts_date2),
     V_str(ts_baddate), V_str(ts_time), V_str(ts_badtime), V_str(ts_text),
     V_int(0), V_int(1700000000)}

SourceAlerts ==
    {MakeDict(f) : f \in [{"source", "vendor", "product"} -> NameValues]}

TypeAlerts ==
    {MakeDict(f) : f \in [{"type", "alert_type", "signature"} -> NameValues]}

TimeAlerts ==
    {MakeDict(f) : f \in [{"timestamp", "time", "event_time"} -> TimeValues]}

FieldAlerts == SourceAlerts \cup TypeAlerts \cup TimeAlerts

MainAlerts ==
    {[timestamp |-> V_str(ts_date), source |-> V_str(n_Firewall),
      type |-> V_str(m_Port_Scan), severity |-> V_str(w_high)],
     [time |-> V_str(ts_time), vendor |-> V_str(n_EDR),
      alert_type |-> V_str(f_Malware)],
     [event_time |-> V_str(ts_text), product |-> V_str(n_WAF),
      signature |-> V_str(f_SQL_Injection),
      severity |-> V_str(w_informational)],
     [severity |-> V_int(3), type |-> V_str(f_brute_force)],
     MakeDict([type |-> Absent]),
     [type |-> V_int(5), source |-> V_str(n_Firewall)],
     [severity |-> V_str(w_medium), type |-> V_str(m_Brute_Force \o m__login),
      timestamp |-> V_str(ts_date2), time |-> V_str(ts_time)]}

MainTables ==
    {<<>>,
     <<Entry(k_brute_force, [tactic |-> V_str(t_Credential_Access),
                             technique |-> V_str(t_T1110)]),
       Entry(k_login, [tactic |-> V_str(t_X), technique |-> V_str(t_Y)])>>,
     <<Entry(k_scan, [tactic |-> V_str(t_Discovery),
                      technique |-> V_str(t_T1046)])>>}

-----------------------------------------------------------------------------
(* Specifications *)

\* the script, run and rerun over a loaded collection while the clock runs
Init ==
    \E alerts \in SeqsUpTo(MainAlerts, MaxAlerts), table \in MainTables :
        Start(alerts, table, 0)

Next == Normalize \/ EndLoop \/ Rerun \/ Tick

Spec == Init /\ [][Next]_vars

\* one run of the loop
LoopNext == Normalize \/ EndLoop

\* severity_bucket over severity values and alert type texts
InitSeverity == \E a \in SeverityAlerts : Start(<<a>>, <<>>, 0)

SpecSeverity == InitSeverity /\ [][LoopNext]_vars

\* mitre_enrich over mapping tables and alert type texts
InitMitre ==
    \E a \in MitreAlerts, table \in MitreTables : Start(<<a>>, table, 0)

SpecMitre == InitMitre /\ [][LoopNext]_vars

\* pick_source, pick_alert_type and parse_time over the alias fields
InitFields ==
    \E a \in FieldAlerts, clock \in 0..MaxTick : Start(<<a>>, <<>>, clock)

SpecFields == InitFields /\ [][LoopNext]_vars

-----------------------------------------------------------------------------
(* Properties of the normalization loop *)

\* the alert the last iteration worked on, and the fields it read
SeverityOf(alert) == dict_get(alert, "severity")

\* C1: normalizing a raw alert never raises: whatever scalar or text its
\* fields hold, every helper returns a value and the loop goes on to the
\* later alerts, so a run never ends in an exception.
C1_NormalizeNeverRaises == pc # "raised" /\ error = "none"

\* the record the loop builds from one alert when the clock shows day c
RecordOf(alert, table, c) ==
    LET atype == pick_alert_type(alert)
        mitre == mitre_enrich(atype, table)
    IN  normalized_record(parse_time(alert, c), pick_source(alert), atype,
                          severity_bucket(alert, atype), mitre[1], mitre[2])

C2_State ==
    /\ Len(normalized_rows) = idx - 1
    /\ Len(normalized_rows) <= Len(raw_alerts)
    /\ \A j \in 1..Len(normalized_rows) :
           \E c \in 0..today :
               normalized_rows[j] = RecordOf(raw_alerts[j], mitre_map, c)
    /\ pc = "done" => Len(normalized_rows) = Len(raw_alerts)

C2_Step ==
    runs' = runs =>
        /\ Len(normalized_rows') \in
               {Len(normalized_rows), Len(normalized_rows) + 1}
        /\ SubSeq(normalized_rows', 1, Len(normalized_rows)) = normalized_rows

\* C2: the loop is an order-preserving one-to-one map: after k iterations
\* normalized_rows holds k records, record j is the one computed from raw
\* alert j, a finished loop over N alerts leaves N records, and an iteration
\* adds at most one record at the end and leaves the earlier ones as they
\* were.
C2_OrderPreservingMap == []C2_State /\ [][C2_Step]_vars

\* a finished loop over two different alerts, both normalized
C2_Witness ==
    /\ pc = "done"
    /\ Len(normalized_rows) = 2
    /\ raw_alerts[1] # raw_alerts[2]
    /\ normalized_rows[1] # normalized_rows[2]

\* a severity field that is text, null or missing
TextOrMissing(v) == v.t \in {"str", "none"}

\* C3: the severity_bucket of every normalized record is one of High, Medium
\* and Low, and an alert whose severity is text, empty or missing and whose
\* type is text does get its record.
C3_BucketIsEnum ==
    /\ \A j \in 1..Len(normalized_rows) :
           normalized_rows[j].severity_bucket \in {High, Medium, Low}
    /\ frame.bound /\ TextOrMissing(SeverityOf(frame.a)) /\ IsStr(frame.atype)
           => /\ pc # "raised"
              /\ Len(normalized_rows) = 1
              /\ frame.bucket \in {High, Medium, Low}

\* an alert with an unrecognized severity and no keyword in its type got Low
C3_Witness ==
    /\ pc = "done"
    /\ Len(normalized_rows) = 1
    /\ SeverityOf(raw_alerts[1]) = V_str(w_informational)
    /\ normalized_rows[1].alert_type = V_str(f_x)
    /\ normalized_rows[1].severity_bucket = Low

-----------------------------------------------------------------------------
(* Properties of severity_bucket *)

\* chars, with the whitespace around it dropped and in lower case, is word
TrimsTo(chars, word) ==
    \E p \in 0..Len(chars) :
        LET q == Len(chars) - p - Len(word)
        IN  /\ q >= 0
            /\ \A k \in 1..p : chars[k] \in Whitespace
            /\ \A k \in (Len(chars) - q + 1)..Len(chars) :
                   chars[k] \in Whitespace
            /\ str_lower(SubSeq(chars, p + 1, p + Len(word))) = word

Recognized(chars) ==
    \E w \in {s_critical, s_high, s_medium, s_low} : TrimsTo(chars, w)

\* the last iteration classified its alert as bucket b and stored the record
Classified(b) ==
    /\ pc # "raised"
    /\ frame.bucket = b
    /\ Len(normalized_rows) = idx - 1
    /\ normalized_rows[idx - 1].severity_bucket = b

\* C4: explicit severity is authoritative: a severity that, lowercased and
\* trimmed, is "critical" or "high" gives High, "medium" gives Medium and
\* "low" gives Low, whatever the alert type text says.
C4_ExplicitSeverityWins ==
    frame.bound /\ IsStr(SeverityOf(frame.a)) /\ IsStr(frame.atype) =>
        LET sv == SeverityOf(frame.a).s
        IN  /\ TrimsTo(sv, s_critical) \/ TrimsTo(sv, s_high)
                   => Classified(High)
            /\ TrimsTo(sv, s_medium) => Classified(Medium)
            /\ TrimsTo(sv, s_low) => Classified(Low)

\* severity "low", padded and capitalized, on a type text naming malware
C4_Witness ==
    /\ pc = "done"
    /\ frame.bound
    /\ SeverityOf(frame.a) = V_str(<<" ">> \o w_Low \o <<" ">>)
    /\ str_contains(s_malware, str_lower(frame.atype.s))
    /\ normalized_rows[1].severity_bucket = Low

\* the bucket the keyword rules give a lowercased alert type text
Fallback(text) ==
    IF str_contains(s_sql_injection, text) \/ str_contains(s_malware, text)
    THEN High
    ELSE IF \/ str_contains(s_brute_force, text)
            \/ str_contains(s_failed_login, text)
            \/ str_contains(s_port_scan, text)
    THEN Medium
    ELSE Low

\* C5: a severity text that is not critical, high, medium or low once
\* lowercased and trimmed is treated as a missing or empty severity: the
\* bucket is the one the keyword rules give the lowercased alert type text,
\* High keywords before Medium keywords, Low when none occurs.
C5_UnrecognizedFallsThrough ==
    /\ frame.bound
    /\ TextOrMissing(SeverityOf(frame.a))
    /\ IsStr(frame.atype)
    /\ IsStr(SeverityOf(frame.a)) => ~Recognized(SeverityOf(frame.a).s)
    => Classified(Fallback(str_lower(frame.atype.s)))

\* severity "informational" on a text naming malware and brute force
C5_Witness ==
    /\ pc = "done"
    /\ frame.bound
    /\ SeverityOf(frame.a) = V_str(w_informational)
    /\ str_contains(s_malware, str_lower(frame.atype.s))
    /\ str_contains(s_brute_force, str_lower(frame.atype.s))
    /\ normalized_rows[1].severity_bucket = High

-----------------------------------------------------------------------------
(* Properties of mitre_enrich *)

\* the positions of the table whose keyword occurs in text
Hits(table, text) ==
    {k \in DOMAIN table : str_contains(table[k].keyword, text)}

\* C6: MITRE enrichment is first-declared-match-wins: the tactic and the
\* technique are those of the first entry, in the table's order, whose
\* keyword is a substring of the lowercased alert type text, and both are
\* "Unknown" when no keyword is.
C6_FirstMatchWins ==
    frame.bound /\ IsStr(frame.atype) =>
        LET hits == Hits(mitre_map, str_lower(frame.atype.s))
        IN  /\ pc # "raised"
            /\ normalized_rows[idx - 1].mitre_tactic = frame.tactic
            /\ normalized_rows[idx - 1].mitre_technique = frame.technique
            /\ IF hits = {}
               THEN frame.tactic = Unknown /\ frame.technique = Unknown
               ELSE LET m == mitre_map[SetMin(hits)].mapping
                    IN  /\ "tactic" \in DOMAIN m => frame.tactic = m.tactic
                        /\ "technique" \in DOMAIN m
                               => frame.technique = m.technique

\* "brute force" declared before "login", both in the text
C6_Witness ==
    /\ pc = "done"
    /\ frame.bound
    /\ Len(mitre_map) = 2
    /\ mitre_map[1].keyword = k_brute_force
    /\ mitre_map[2].keyword = k_login
    /\ Hits(mitre_map, str_lower(frame.atype.s)) = {1, 2}
    /\ frame.tactic = V_str(t_Credential_Access)
    /\ frame.technique = V_str(t_T1110)

\* C7: mitre_tactic and mitre_technique of every normalized record are
\* populated, never null: each is a name or the text "Unknown", whatever the
\* entries of the mapping table hold.
C7_MitreFieldsPopulated ==
    \A j \in 1..Len(normalized_rows) :
        /\ IsStr(normalized_rows[j].mitre_tactic)
        /\ IsStr(normalized_rows[j].mitre_technique)

-----------------------------------------------------------------------------
(* Properties of pick_source, pick_alert_type and parse_time *)

\* a value that counts as empty: null, the empty text, zero, false
Blank(v) == v \in {None, V_str(<<>>), V_int(0), V_bool(FALSE)}

\* the positions of keys under which the alert holds a non-empty value
Filled(alert, keys) ==
    {k \in DOMAIN keys : keys[k] \in DOMAIN alert /\ ~Blank(alert[keys[k]])}

\* result is the first non-empty value under keys, or default when none is
FirstNonEmpty(alert, keys, default, result) ==
    IF Filled(alert, keys) = {} THEN result = default
    ELSE result = alert[keys[SetMin(Filled(alert, keys))]]

SourceKeys == <<"source", "vendor", "product">>

TypeKeys == <<"type", "alert_type", "signature">>

TimeKeys == <<"timestamp", "time", "event_time">>

\* C8: the source is the first non-empty value among source, vendor and
\* product, the alert type the first among type, alert_type and signature;
\* an empty higher-priority field is passed over, the result is "Unknown"
\* when no alias holds a value, and it is never the empty text.
C8_PriorityChain ==
    frame.bound =>
        /\ FirstNonEmpty(frame.a, SourceKeys, Unknown, frame.src)
        /\ FirstNonEmpty(frame.a, TypeKeys, Unknown, frame.atype)
        /\ frame.src # V_str(<<>>)
        /\ frame.atype # V_str(<<>>)
        /\ pc = "done" => /\ normalized_rows[1].source = frame.src
                          /\ normalized_rows[1].alert_type = frame.atype

\* source present but empty, vendor absent, product set
C8_Witness ==
    /\ pc = "done"
    /\ frame.bound
    /\ DOMAIN frame.a = {"source", "product"}
    /\ frame.a["source"] = V_str(<<>>)
    /\ frame.a["product"] = V_str(n_EDR)
    /\ normalized_rows[1].source = V_str(n_EDR)

\* C9: the timestamp is parsed from the first non-empty value among
\* timestamp, time and event_time and from no other: it is absent when none
\* holds a value, and absent as well, the lower-priority fields untried and
\* nothing raised, when the chosen value does not parse.
C9_FirstTimestampOnly ==
    frame.bound =>
        /\ error \notin {"ValueError", "TypeError"}
        /\ DOMAIN frame.a \subseteq {"timestamp", "time", "event_time"}
               => pc # "raised"
        /\ IF Filled(frame.a, TimeKeys) = {} THEN frame.ts = None
           ELSE LET chosen == frame.a[TimeKeys[SetMin(Filled(frame.a, TimeKeys))]]
                    parsed == parser_parse(chosen, today)
                IN  frame.ts = IF IsRaise(parsed) THEN None ELSE parsed
        /\ pc = "done" => normalized_rows[1].timestamp = frame.ts

\* timestamp holds no date, time holds one: the record has no timestamp
C9_Witness ==
    /\ pc = "done"
    /\ frame.bound
    /\ DOMAIN frame.a = {"timestamp", "time"}
    /\ frame.a["timestamp"] = V_str(ts_text)
    /\ frame.a["time"] = V_str(ts_date)
    /\ normalized_rows[1].timestamp = None

-----------------------------------------------------------------------------
(* Properties of reruns *)

\* C10: the pipeline is deterministic: a second run over the same alerts and
\* the same mapping table ends with the records the first run ended with.
C10_RunsAgree ==
    runs >= 2 /\ pc = "done" /\ prev_pc = "done"
        => normalized_rows = prev_rows

=============================================================================
